---- MODULE Spec2Model ----
(***************************************************************************)
(* A model of src/main.py, class AwesomeReadmeGenerator: the loader, the   *)
(* date parser, the in-place descending sort, the entry and badge          *)
(* formatting, and the document assembler with its file write.             *)
(*                                                                         *)
(* Representation.  A Python string that the program only copies (a title, *)
(* a URL, a literal of an f-string) is one token; a string the program     *)
(* builds is the sequence of its tokens, so that concatenation is \o and   *)
(* str.join is Join.  A string the program parses (the date) is the        *)
(* sequence of its characters.  An entry is a function on the keys it     *)
(* has; the catalog keeps its members in the order of the document.        *)
(***************************************************************************)
EXTENDS Integers, Sequences, FiniteSets, Bags, TLC

\* ------------------------------------------------------------------ bounds
MaxLen == 3
MaxRuns == 2

\* ------------------------------------------------------- generic helpers
\* F(e), with e evaluated once however often F uses it
Strict(e, F(_)) == CHOOSE r \in {F(x) : x \in {e}} : TRUE

Reverse(s) == [i \in 1..Len(s) |-> s[Len(s) + 1 - i]]

RECURSIVE JoinFirst(_, _, _)
\* sep.join(parts[:n]), every part a token sequence
JoinFirst(sep, parts, n) ==
    IF n = 0 THEN <<>>
    ELSE IF n = 1 THEN parts[1]
    ELSE JoinFirst(sep, parts, n - 1) \o <<sep>> \o parts[n]

\* sep.join(parts)
Join(sep, parts) == Strict(parts, LAMBDA ps : JoinFirst(sep, ps, Len(ps)))

\* the character U+0060, which a TLA+ string cannot hold
Tick == "<U+0060>"

\* truthiness of a built string: it has at least one character
StrTruthy(toks) == \E i \in 1..Len(toks) : toks[i] # ""

\* --------------------------------------------------------- JSON values
\* the value of the "date" member: a string (its characters), a number
\* (its digits) or None (the member is missing)
JStr(chars) == [t |-> "str", v |-> chars]
JNum(chars) == [t |-> "num", v |-> chars]
None == [t |-> "null", v |-> <<>>]

\* dict.get(field, default)
Get(entry, field, default) ==
    IF field \in DOMAIN entry THEN entry[field] ELSE default

\* ------------------------------------------------- datetime.strptime
Digit == {"0", "1", "2", "3", "4", "5", "6", "7", "8", "9"}

DigitVal(c) ==
    CASE c = "0" -> 0 [] c = "1" -> 1 [] c = "2" -> 2 [] c = "3" -> 3
      [] c = "4" -> 4 [] c = "5" -> 5 [] c = "6" -> 6 [] c = "7" -> 7
      [] c = "8" -> 8 [] c = "9" -> 9 [] OTHER -> 0

At(s, i) == IF i \in 1..Len(s) THEN s[i] ELSE "EOS"

\* %m is the regex 1[0-2]|0[1-9]|[1-9]; the length each alternative
\* consumes at position i, 0 when it does not match
MonthAlts(s, i) ==
    << IF At(s, i) = "1" /\ At(s, i + 1) \in {"0", "1", "2"} THEN 2 ELSE 0,
       IF At(s, i) = "0" /\ At(s, i + 1) \in Digit \ {"0"} THEN 2 ELSE 0,
       IF At(s, i) \in Digit \ {"0"} THEN 1 ELSE 0 >>

\* %d is the regex 3[01]|[12]\d|0[1-9]|[1-9]| [1-9]; nothing follows it in
\* the format, so the first alternative that matches is taken
DayLen(s, j) ==
    IF At(s, j) = "3" /\ At(s, j + 1) \in {"0", "1"} THEN 2
    ELSE IF At(s, j) \in {"1", "2"} /\ At(s, j + 1) \in Digit THEN 2
    ELSE IF At(s, j) = "0" /\ At(s, j + 1) \in Digit \ {"0"} THEN 2
    ELSE IF At(s, j) \in Digit \ {"0"} THEN 1
    ELSE IF At(s, j) = " " /\ At(s, j + 1) \in Digit \ {"0"} THEN 2
    ELSE 0

\* int() of the characters s[i..i+n-1]; int(" 5") is 5
IntOf(s, i, n) ==
    IF n = 1 THEN DigitVal(s[i])
    ELSE IF n = 2 THEN 10 * DigitVal(s[i]) + DigitVal(s[i + 1])
    ELSE 1000 * DigitVal(s[i]) + 100 * DigitVal(s[i + 1])
         + 10 * DigitVal(s[i + 2]) + DigitVal(s[i + 3])

IsLeap(y) == (y % 4 = 0) /\ ((y % 100 # 0) \/ (y % 400 = 0))

DaysInMonth(y, m) ==
    IF m = 2 THEN (IF IsLeap(y) THEN 29 ELSE 28)
    ELSE IF m \in {4, 6, 9, 11} THEN 30 ELSE 31

\* the lengths the month may take so that "-" and a day follow it, in the
\* order the regex engine tries them
MonthChoices(s) ==
    SelectSeq(MonthAlts(s, 6),
              LAMBDA n : n > 0 /\ At(s, 6 + n) = "-" /\ DayLen(s, 7 + n) > 0)

Raised(exc) == [ok |-> FALSE, exc |-> exc, dt |-> <<0, 0, 0>>]
Returned(dt) == [ok |-> TRUE, exc |-> "", dt |-> dt]

\* datetime.strptime(value, "%Y-%m-%d"): a datetime <<year, month, day>>
\* (at midnight), or the exception raised
StrpTime(value) ==
    IF value.t # "str" THEN Raised("TypeError")
    ELSE LET s == value.v IN
      IF ~ ( /\ \A i \in 1..4 : At(s, i) \in Digit
             /\ At(s, 5) = "-"
             /\ MonthChoices(s) # <<>> )
      THEN Raised("ValueError")        \* does not match format
      ELSE LET ml == MonthChoices(s)[1]
               dl == DayLen(s, 7 + ml)
               y == IntOf(s, 1, 4)
               m == IntOf(s, 6, ml)
               d == IF At(s, 7 + ml) = " " THEN IntOf(s, 8 + ml, 1)
                    ELSE IntOf(s, 7 + ml, dl)
           IN IF Len(s) # 6 + ml + dl THEN Raised("ValueError") \* unconverted data
              ELSE IF y < 1 THEN Raised("ValueError")           \* year 0
              ELSE IF d > DaysInMonth(y, m) THEN Raised("ValueError")
              ELSE Returned(<<y, m, d>>)

\* datetime.min
DateMin == <<1, 1, 1>>

\* datetime < datetime
DtLess(a, b) ==
    \/ a[1] < b[1]
    \/ a[1] = b[1] /\ a[2] < b[2]
    \/ a[1] = b[1] /\ a[2] = b[2] /\ a[3] < b[3]

\* _parse_date
parse_date(date_str) ==
    LET r == StrpTime(date_str) IN
    IF r.ok THEN r.dt ELSE DateMin     \* except (ValueError, TypeError)

\* the sort key of line 76
SortKey(x) == parse_date(Get(x, "date", None))

\* ------------------------------------------------------------ list.sort
RECURSIVE InsertFromBeforeEqual(_, _, _)
\* InsertFrom comparing with <= : x goes in front of the elements whose key
\* equals its own
InsertFromBeforeEqual(x, s, i) ==
    IF i > Len(s) THEN Append(s, x)
    ELSE IF ~ DtLess(SortKey(s[i]), SortKey(x))
      THEN SubSeq(s, 1, i - 1) \o <<x>> \o SubSeq(s, i, Len(s))
    ELSE InsertFromBeforeEqual(x, s, i + 1)

RECURSIVE InsertFrom(_, _, _)
\* the ascending list s with x inserted at or behind position i: x goes
\* behind every element whose key is not greater than its own
InsertFrom(x, s, i) ==
    IF i > Len(s) THEN Append(s, x)
    ELSE IF DtLess(SortKey(x), SortKey(s[i]))
      THEN SubSeq(s, 1, i - 1) \o <<x>> \o SubSeq(s, i, Len(s))
    ELSE InsertFrom(x, s, i + 1)

RECURSIVE SortFirst(_, _)
\* s[1..n] in ascending order of the keys, equal keys in the order of s
SortFirst(s, n) ==
    IF n = 0 THEN <<>>
    ELSE Strict(SortFirst(s, n - 1), LAMBDA sorted : InsertFrom(s[n], sorted, 1))

StableSortAsc(s) == SortFirst(s, Len(s))

\* entries.sort(key=...): reverse=True left out
SortAscending(entries) == Strict(entries, LAMBDA es : StableSortAsc(es))

\* sorted ascending and then reversed, as entries.sort(key=...) followed by
\* entries.reverse() would
SortThenReverse(entries) ==
    Strict(entries, LAMBDA es :
        Strict(StableSortAsc(es), LAMBDA asc : Reverse(asc)))

\* entries.sort(key=..., reverse=True): the list is reversed, sorted
\* ascending by a stable sort, and reversed again
SortDesc(entries) ==
    Strict(Reverse(entries), LAMBDA rev :
        Strict(StableSortAsc(rev), LAMBDA asc : Reverse(asc)))

\* ------------------------------------------------------ _generate_badges
ArxivBadge == "[![arXiv](https://img.shields.io/badge/arXiv-Paper-b31b1b.svg)]("
GithubBadge == "[![GitHub](https://img.shields.io/badge/GitHub-Repo-181717.svg?logo=github)]("

\* if field in entry: an empty string counts
FieldPresent(entry, field) == field \in DOMAIN entry

\* if entry.get(field): the member is there and is not the empty string
FieldTruthy(entry, field) == field \in DOMAIN entry /\ entry[field] # ""

\* the list `badges` of _generate_badges
BadgeList(entry) ==
    (IF FieldTruthy(entry, "arxiv")
       THEN << <<ArxivBadge, entry["arxiv"], ")">> >> ELSE <<>>)
    \o
    (IF FieldTruthy(entry, "github")
       THEN << <<GithubBadge, entry["github"], ")">> >> ELSE <<>>)

generate_badges(entry) == Join(" ", BadgeList(entry))

\* --------------------------------------------------------- _format_entry
\* the value of "keywords": a list of strings, or null
JArr(items) == [t |-> "arr", v |-> items]
JNull == [t |-> "null", v |-> <<>>]

Fail(exc) == [ok |-> FALSE, exc |-> exc, line |-> <<>>]
Line(toks) == [ok |-> TRUE, exc |-> "", line |-> toks]

\* ", ".join(kw), kw a list of strings
KeywordsJoined(kw) == Join(", ", [i \in 1..Len(kw.v) |-> <<kw.v[i]>>])

\* lines 45 to 57 of _format_entry, with the fields it looked up
EntryLine(entry, title, url, venue, kw) ==
    IF kw.t # "arr" THEN Fail("TypeError")       \* join() of None
    ELSE Strict(KeywordsJoined(kw), LAMBDA keywords :
           Line(<<"**", title, "** <br> [", Tick, venue, Tick, "](", url, ") ">>
                \o generate_badges(entry)
                \o (IF StrTruthy(keywords)
                      THEN <<" <br> _Keywords: ">> \o keywords \o <<"_">>
                      ELSE <<>>)
                \o <<" <br> <br> ">>))

\* entry["title"] in place of entry.get("title", "Untitled")
format_entry_subscript(entry) ==
    IF "title" \notin DOMAIN entry THEN Fail("KeyError")
    ELSE EntryLine(entry, entry["title"], Get(entry, "url", "#"),
                   Get(entry, "venue", "Preprint"),
                   Get(entry, "keywords", JArr(<<>>)))

format_entry(entry) ==
    EntryLine(entry, Get(entry, "title", "Untitled"), Get(entry, "url", "#"),
              Get(entry, "venue", "Preprint"),
              Get(entry, "keywords", JArr(<<>>)))

\* ------------------------------------------------------------ the catalog
\* json.load's result: a dict (its members in document order) or a list
JObj(members) == [t |-> "obj", members |-> members]
JList == [t |-> "arr", members |-> <<>>]
NoData == [t |-> "none", members |-> <<>>]

HasKey(root, key) == \E i \in 1..Len(root.members) : root.members[i].key = key

\* self.data.get(key, [])
DictGet(root, key) ==
    IF HasKey(root, key)
      THEN root.members[CHOOSE i \in 1..Len(root.members) :
                            root.members[i].key = key].val
      ELSE <<>>

\* every list of the dict sorted, whatever its key
SortedEveryList(root, key) ==
    [root EXCEPT !.members =
        [i \in 1..Len(root.members) |->
            [root.members[i] EXCEPT !.val = SortDesc(@)]]]

\* the dict after the list under key was sorted in place
SortedInPlace(root, key) ==
    [root EXCEPT !.members =
        [i \in 1..Len(root.members) |->
            IF root.members[i].key = key
              THEN [root.members[i] EXCEPT !.val = SortDesc(@)]
              ELSE root.members[i]]]

\* ------------------------------------------------------ _generate_section
\* _format_entry of every entry, in the order of the list
FormatAll(entries) ==
    Strict(entries, LAMBDA es : [i \in 1..Len(es) |-> format_entry(es[i])])

\* the dict it leaves, the blocks it rendered and the string it returns
generate_section(root, title, key) ==
    IF root.t # "obj"
      THEN [ok |-> FALSE, exc |-> "AttributeError", data |-> root,
            blocks |-> <<>>, out |-> <<>>]
    ELSE IF DictGet(root, key) = <<>>
      THEN [ok |-> TRUE, exc |-> "", data |-> root, blocks |-> <<>>, out |-> <<>>]
    ELSE Strict(SortedInPlace(root, key), LAMBDA after :
           Strict(FormatAll(DictGet(after, key)), LAMBDA fmt :
             IF \E i \in 1..Len(fmt) : ~ fmt[i].ok
               THEN [ok |-> FALSE, exc |-> "TypeError", data |-> after,
                     blocks |-> <<>>, out |-> <<>>]
               ELSE Strict([i \in 1..Len(fmt) |-> fmt[i].line], LAMBDA blocks :
                      [ok |-> TRUE, exc |-> "", data |-> after, blocks |-> blocks,
                       out |-> Join("\n", << <<"## ", title, "\n">> >> \o blocks)
                               \o <<"\n">>])))

\* -------------------------------------------------------- _generate_intro
Intro ==
    << "<h1 align=\"center\">Awesome Story Visualization</h1>\n\n",
       "A curated list of resources, papers, and benchmarks focused on ",
       "**Story Visualization**.\n\n",
       "Entries are sorted by date (newest first).\n\n",
       "If you want to contribute, please edit the ", Tick, "citations.json", Tick, " file, ",
       "run the generator script, and create a pull request.\n\n",
       "If you are looking for Storytelling, text based, take a look at [Awesome-Story-Generation](https://github.com/yingpengma/Awesome-Story-Generation).\n\n",
       "---\n" >>

\* --------------------------------------------------------------- generate
\* the sections in the order generate() asks for them
SectionOrder == << <<"Papers", "papers">>, <<"Benchmarks", "benchmarks">>,
                   <<"Datasets", "datasets">> >>

RECURSIVE RunSections(_, _, _)
\* the results of _generate_section for calls[1..n], each on the dict the
\* one before left; it stops at the first call that raises
RunSections(root, calls, n) ==
    IF n = 0 THEN <<>>
    ELSE Strict(RunSections(root, calls, n - 1), LAMBDA before :
           IF before # <<>> /\ ~ before[Len(before)].ok THEN before
           ELSE Append(before,
                       generate_section(
                           IF before = <<>> THEN root ELSE before[Len(before)].data,
                           calls[n][1], calls[n][2])))

\* "\n".join(content)
FinalMarkdown(results) ==
    Join("\n", <<Intro>> \o [i \in 1..Len(results) |-> results[i].out])

\* the sections asked for in the order of the keys of the document
generate_results_in_key_order(root) ==
    IF root.t # "obj" THEN RunSections(root, SectionOrder, Len(SectionOrder))
    ELSE Strict(SelectSeq([i \in 1..Len(root.members) |-> root.members[i].key],
                          LAMBDA k : \E c \in 1..Len(SectionOrder) :
                                        SectionOrder[c][2] = k),
                LAMBDA keys :
                  Strict([i \in 1..Len(keys) |->
                            SectionOrder[CHOOSE c \in 1..Len(SectionOrder) :
                                            SectionOrder[c][2] = keys[i]]],
                         LAMBDA calls : RunSections(root, calls, Len(calls))))

\* what a call of generate() computes before it writes
generate_results(root) == RunSections(root, SectionOrder, Len(SectionOrder))

\* ------------------------------------------------------------ the files
\* a file: absent, text that is no JSON document, or a JSON document
NoFile == [kind |-> "absent", root |-> NoData, doc |-> <<>>]
TextFile(doc) == [kind |-> "text", root |-> NoData, doc |-> doc]
JsonFile(root) == [kind |-> "json", root |-> root, doc |-> <<>>]

\* the json_path of the entry point, and the paths output_path may name:
\* its default, or the input file itself
JsonPath == "citations.json"
DefaultOutput == "README.md"
Paths == {JsonPath, DefaultOutput}

\* os.path.exists
PathExists(files, path) == files[path].kind # "absent"

\* json.load
JsonLoad(file) ==
    IF file.kind = "json" THEN [ok |-> TRUE, exc |-> "", root |-> file.root]
    ELSE [ok |-> FALSE, exc |-> "JSONDecodeError", root |-> NoData]

\* a _load_data that takes a missing file for an empty catalog
load_data_tolerant(files, path) ==
    IF ~ PathExists(files, path)
      THEN [ok |-> TRUE, exc |-> "", root |-> JObj(<<>>)]
      ELSE JsonLoad(files[path])

\* _load_data
load_data(files, path) ==
    IF ~ PathExists(files, path)
      THEN [ok |-> FALSE, exc |-> "FileNotFoundError", root |-> NoData]
      ELSE JsonLoad(files[path])

\* open(path, "w") and f.write(text): the file holds the text and nothing else
WriteFile(files, path, text) == [files EXCEPT ![path] = TextFile(text)]

\* ------------------------------------------------------- input documents
Chars_2023_01_01 == <<"2", "0", "2", "3", "-", "0", "1", "-", "0", "1">>
Chars_2023_1_1 == <<"2", "0", "2", "3", "-", "1", "-", "1">>
Chars_2024_02_29 == <<"2", "0", "2", "4", "-", "0", "2", "-", "2", "9">>
Chars_2023_02_29 == <<"2", "0", "2", "3", "-", "0", "2", "-", "2", "9">>
Chars_0001_01_01 == <<"0", "0", "0", "1", "-", "0", "1", "-", "0", "1">>
Chars_2022_12_31 == <<"2", "0", "2", "2", "-", "1", "2", "-", "3", "1">>
Chars_2021_06_30 == <<"2", "0", "2", "1", "-", "0", "6", "-", "3", "0">>
Chars_20230101 == <<"2", "0", "2", "3", "0", "1", "0", "1">>

\* the entries a "papers" list is drawn from
PaperPool ==
    { [title |-> "A", url |-> "https://a", venue |-> "CVPR",
       keywords |-> JArr(<<"x", "y">>), date |-> JStr(Chars_2023_01_01),
       arxiv |-> "https://arxiv/a", github |-> "https://github/a"],
      [title |-> "B", date |-> JStr(Chars_2024_02_29), arxiv |-> "https://arxiv/b"],
      [title |-> "C", date |-> JStr(Chars_2023_1_1), github |-> ""],
      [title |-> "D", venue |-> "ICLR"],
      [title |-> "E", date |-> JStr(Chars_0001_01_01)] }

SeqsUpTo(S, n) == UNION {[1..k -> S] : k \in 0..n}

BenchmarkList ==
    << [title |-> "G", date |-> JNum(Chars_20230101)],
       [title |-> "H", date |-> JStr(Chars_2022_12_31)],
       [title |-> "I", date |-> JStr(Chars_2022_12_31), venue |-> "ECCV"],
       [url |-> "https://f", date |-> JStr(Chars_2023_02_29)] >>

DatasetList ==
    << [title |-> "J", date |-> JStr(Chars_2021_06_30)],
       [title |-> "K", date |-> JStr(Chars_2022_12_31)] >>

\* a list generate() cannot render: "keywords" is null
BrokenList ==
    << [title |-> "L", date |-> JStr(Chars_2021_06_30)],
       [title |-> "M", date |-> JStr(Chars_2022_12_31), keywords |-> JNull] >>

\* a member no section reads
NotesList ==
    << [title |-> "N", date |-> JStr(Chars_2021_06_30)],
       [title |-> "O", date |-> JStr(Chars_2022_12_31)] >>

\* a member of the document that is missing, or its list
Missing == [has |-> FALSE, val |-> <<>>]
Has(list) == [has |-> TRUE, val |-> list]

KeyOrders ==
    { <<"papers", "benchmarks", "datasets", "notes">>,
      <<"datasets", "notes", "benchmarks", "papers">> }

\* the JSON object with the members that are there, in the order given
Catalog(order, opt) ==
    LET present == SelectSeq(order, LAMBDA k : opt[k].has)
    IN JObj([i \in 1..Len(present) |->
                [key |-> present[i], val |-> opt[present[i]].val]])

Catalogs ==
    { Catalog(order, [papers |-> p, benchmarks |-> b, datasets |-> d,
                      notes |-> Has(NotesList)]) :
        order \in KeyOrders,
        p \in {Missing} \cup {Has(l) : l \in SeqsUpTo(PaperPool, MaxLen)},
        b \in {Missing, Has(BenchmarkList)},
        d \in {Has(<<>>), Has(DatasetList), Has(BrokenList)} }

InputFiles ==
    {NoFile, TextFile(<<"{not json">>), JsonFile(JList)}
    \cup {JsonFile(c) : c \in Catalogs}

OldReadme == TextFile(<<"# old\n">>)

\* ------------------------------------------------------------- the state
VARIABLES
    fs,           \* the files, by path
    fs0,          \* the files before the run (history)
    output_path,  \* self.output_path
    pc,           \* "start", "loaded", "done" (generate returned), "error"
    err,          \* the exception that ended the run, "" if none
    data,         \* self.data
    loaded,       \* self.data as _load_data returned it (history)
    runs,         \* calls of generate() so far
    written,      \* the text of every write so far, oldest first (history)
    sections,     \* the blocks the last generate() rendered, per section
    arg,          \* the argument of a function applied on its own
    ret           \* and what it returned

vars == <<fs, fs0, output_path, pc, err, data, loaded, runs, written,
          sections, arg, ret>>

NoCall == [fn |-> "none"]

Init ==
    /\ \E input \in InputFiles, out \in Paths, old \in {NoFile, OldReadme} :
          /\ out = JsonPath => old = NoFile
          /\ output_path = out
          /\ fs = [p \in Paths |-> IF p = JsonPath THEN input ELSE old]
    /\ fs0 = fs
    /\ pc = "start"
    /\ err = ""
    /\ data = NoData
    /\ loaded = NoData
    /\ runs = 0
    /\ written = <<>>
    /\ sections = <<>>
    /\ arg = <<>>
    /\ ret = NoCall

\* __init__: _load_data raises FileNotFoundError
LoadNotFound ==
    /\ pc = "start"
    /\ load_data(fs, JsonPath).exc = "FileNotFoundError"
    /\ pc' = "error"
    /\ err' = "FileNotFoundError"
    /\ UNCHANGED <<fs, fs0, output_path, data, loaded, runs, written,
                   sections, arg, ret>>

\* __init__: json.load raises
LoadParseError ==
    /\ pc = "start"
    /\ load_data(fs, JsonPath).exc = "JSONDecodeError"
    /\ pc' = "error"
    /\ err' = "JSONDecodeError"
    /\ UNCHANGED <<fs, fs0, output_path, data, loaded, runs, written,
                   sections, arg, ret>>

\* __init__: self.data = self._load_data()
LoadOk ==
    /\ pc = "start"
    /\ load_data(fs, JsonPath).ok
    /\ data' = load_data(fs, JsonPath).root
    /\ loaded' = data'
    /\ pc' = "loaded"
    /\ UNCHANGED <<fs, fs0, output_path, err, runs, written, sections, arg, ret>>

\* generate() returns: the three sections, then the write
GenerateOk ==
    /\ pc \in {"loaded", "done"}
    /\ runs < MaxRuns
    /\ \E results \in {generate_results(data)} :
          /\ results[Len(results)].ok
          /\ data' = results[Len(results)].data
          /\ \E final_markdown \in {FinalMarkdown(results)} :
                /\ fs' = WriteFile(fs, output_path, final_markdown)
                /\ written' = Append(written, final_markdown)
          /\ sections' = [i \in 1..Len(results) |-> results[i].blocks]
    /\ runs' = runs + 1
    /\ pc' = "done"
    /\ UNCHANGED <<fs0, output_path, err, loaded, arg, ret>>

\* generate() raises in a section: nothing is written, the lists sorted so
\* far stay sorted
GenerateRaises ==
    /\ pc \in {"loaded", "done"}
    /\ runs < MaxRuns
    /\ \E results \in {generate_results(data)} :
          /\ ~ results[Len(results)].ok
          /\ data' = results[Len(results)].data
          /\ err' = results[Len(results)].exc
    /\ runs' = runs + 1
    /\ pc' = "error"
    /\ UNCHANGED <<fs, fs0, output_path, loaded, written, sections, arg, ret>>

Next ==
    \/ LoadNotFound
    \/ LoadParseError
    \/ LoadOk
    \/ GenerateOk
    \/ GenerateRaises

Spec == Init /\ [][Next]_vars

\* ------------------------------------------- the functions on their own
\* _format_entry, _generate_badges and the sort key applied to one entry

Fields == {"title", "url", "venue", "keywords", "date", "arxiv", "github"}

Chars_0000_01_01 == <<"0", "0", "0", "0", "-", "0", "1", "-", "0", "1">>
Chars_2023_13_01 == <<"2", "0", "2", "3", "-", "1", "3", "-", "0", "1">>
Chars_2023_01_011 == <<"2", "0", "2", "3", "-", "0", "1", "-", "0", "1", "1">>
Chars_2023_01_sp1 == <<"2", "0", "2", "3", "-", "0", "1", "-", " ", "1">>
Chars_slashes == <<"2", "0", "2", "3", "/", "0", "1", "/", "0", "1">>

DateValues ==
    { JStr(Chars_2023_01_01), JStr(Chars_2023_1_1), JStr(Chars_2024_02_29),
      JStr(Chars_2023_02_29), JStr(Chars_0001_01_01), JStr(Chars_0000_01_01),
      JStr(Chars_2023_13_01), JStr(Chars_2023_01_011), JStr(Chars_2023_01_sp1),
      JStr(Chars_slashes), JStr(<<>>), JNum(Chars_20230101) }

KeywordValues ==
    { JArr(<<>>), JArr(<<"x", "y">>), JArr(<<"">>), JNull }

\* a member that is missing, or one of its values
OrMissing(values, filler) ==
    {[has |-> FALSE, val |-> filler]} \cup {[has |-> TRUE, val |-> v] : v \in values}

\* the dict with the members that are there
MkEntry(opt) == [f \in {g \in Fields : opt[g].has} |-> opt[f].val]

AllEntries ==
    { MkEntry([title |-> t, url |-> u, venue |-> v, keywords |-> k,
               date |-> d, arxiv |-> a, github |-> g]) :
        t \in OrMissing({"A"}, ""),
        u \in OrMissing({"https://a"}, ""),
        v \in OrMissing({"CVPR"}, ""),
        k \in OrMissing(KeywordValues, JNull),
        d \in OrMissing(DateValues, JNull),
        a \in OrMissing({"", "https://arxiv/a"}, ""),
        g \in OrMissing({"", "https://github/a"}, "") }

InitFormat ==
    /\ arg \in AllEntries
    /\ ret = NoCall
    /\ fs = [p \in Paths |-> NoFile]
    /\ fs0 = fs
    /\ output_path = DefaultOutput
    /\ pc = "call"
    /\ err = ""
    /\ data = NoData
    /\ loaded = NoData
    /\ runs = 0
    /\ written = <<>>
    /\ sections = <<>>

Frame == UNCHANGED <<fs, fs0, output_path, pc, err, data, loaded, runs,
                     written, sections, arg>>

CallFormatEntry ==
    /\ ret = NoCall
    /\ \E r \in {format_entry(arg)} :
          ret' = [fn |-> "_format_entry", ok |-> r.ok, exc |-> r.exc,
                  val |-> r.line]
    /\ Frame

CallGenerateBadges ==
    /\ ret = NoCall
    /\ ret' = [fn |-> "_generate_badges", ok |-> TRUE, exc |-> "",
               val |-> generate_badges(arg)]
    /\ Frame

CallSortKey ==
    /\ ret = NoCall
    /\ ret' = [fn |-> "key", ok |-> TRUE, exc |-> "", val |-> SortKey(arg)]
    /\ Frame

NextFormat ==
    \/ CallFormatEntry
    \/ CallGenerateBadges
    \/ CallSortKey

SpecFormat == InitFormat /\ [][NextFormat]_vars

\* ================================================================ claims
Count(s, e) == Cardinality({i \in 1..Len(s) : s[i] = e})

\* t holds the elements of s, each as often as s does
IsPerm(s, t) ==
    /\ Len(s) = Len(t)
    /\ \A i \in 1..Len(s) : Count(s, s[i]) = Count(t, s[i])

SectionIds == 1..Len(SectionOrder)
\* the list of section c as loaded, and as the last generate() left it,
\* which is the order it rendered the entries in
LoadedList(c) == DictGet(loaded, SectionOrder[c][2])
RenderedList(c) == DictGet(data, SectionOrder[c][2])

\* the blocks of section c are the entries of RenderedList(c), in its order
RendersInListOrder(c) ==
    /\ Len(sections[c]) = Len(RenderedList(c))
    /\ \A i \in 1..Len(sections[c]) :
          sections[c][i] = format_entry(RenderedList(c)[i]).line

\* the "date" of the entry is a string strptime accepts
HasValidDate(e) == "date" \in DOMAIN e /\ StrpTime(e["date"]).ok

\* C1: in every rendered section, an entry whose date is absent or not a
\* valid date comes after every entry of the section whose date is valid.
C1_InvalidDatesLast ==
    pc = "done" =>
      \A c \in SectionIds :
        /\ RendersInListOrder(c)
        /\ \A i, j \in 1..Len(RenderedList(c)) :
              (~ HasValidDate(RenderedList(c)[i]) /\ HasValidDate(RenderedList(c)[j]))
                => j < i

\* the elements of s whose sort key is k, in the order of s
WithKey(s, k) == SelectSeq(s, LAMBDA e : SortKey(e) = k)

\* C2: the descending sort is stable: the entries of a section that share a
\* parsed date (the sentinel included) are rendered in their input order.
C2_StableSort ==
    pc = "done" =>
      \A c \in SectionIds :
        /\ RendersInListOrder(c)
        /\ \A i \in 1..Len(LoadedList(c)) :
              WithKey(RenderedList(c), SortKey(LoadedList(c)[i]))
                = WithKey(LoadedList(c), SortKey(LoadedList(c)[i]))

\* two different entries with one parsed date, in a list the sort changed
C2_Witness ==
    /\ pc = "done"
    /\ \E i, j \in 1..Len(LoadedList(1)) :
          /\ i < j
          /\ LoadedList(1)[i] # LoadedList(1)[j]
          /\ SortKey(LoadedList(1)[i]) = SortKey(LoadedList(1)[j])
          /\ SortKey(LoadedList(1)[i]) = DateMin
    /\ RenderedList(1) # LoadedList(1)

\* C3: the blocks of a non-empty section are the input entries, each once,
\* ordered by parsed date descending.
C3_PermutationDescending ==
    pc = "done" =>
      \A c \in SectionIds :
        LoadedList(c) # <<>> =>
          /\ RendersInListOrder(c)
          /\ IsPerm(LoadedList(c), RenderedList(c))
          /\ \A i, j \in 1..Len(RenderedList(c)) :
                i < j => ~ DtLess(SortKey(RenderedList(c)[i]),
                                  SortKey(RenderedList(c)[j]))

C3_Witness ==
    /\ pc = "done"
    /\ Len(LoadedList(1)) = 3
    /\ DtLess(SortKey(LoadedList(1)[1]), SortKey(LoadedList(1)[2]))
    /\ DtLess(SortKey(LoadedList(1)[2]), SortKey(LoadedList(1)[3]))
    /\ Len(sections[1]) = 3

\* C4: when the input file is missing or is not JSON, the run ends in an
\* error and no file is created or written.
C4_NoOutputOnLoadFailure ==
    fs0[JsonPath].kind # "json" =>
      /\ pc \in {"start", "error"}
      /\ written = <<>>
      /\ fs = fs0

C4_Witness ==
    /\ pc = "error"
    /\ err = "JSONDecodeError"
    /\ output_path = DefaultOutput
    /\ fs[DefaultOutput] = NoFile

\* the titles of the level-2 headings of a document, in its order
Headings(doc) ==
    LET at == SelectSeq([i \in 1..Len(doc) |-> i],
                        LAMBDA i : doc[i] = "## " /\ i < Len(doc))
    IN [n \in 1..Len(at) |-> doc[at[n] + 1]]

ExpectedHeadings ==
    (IF DictGet(loaded, "papers") # <<>> THEN <<"Papers">> ELSE <<>>)
    \o (IF DictGet(loaded, "benchmarks") # <<>> THEN <<"Benchmarks">> ELSE <<>>)
    \o (IF DictGet(loaded, "datasets") # <<>> THEN <<"Datasets">> ELSE <<>>)

\* C5: the level-2 headings of the written document are Papers, Benchmarks,
\* Datasets restricted to the categories whose list is there and non-empty,
\* whatever the order of the keys in the source.
C5_HeadingOrder ==
    pc = "done" =>
      /\ fs[output_path].kind = "text"
      /\ fs[output_path].doc = written[Len(written)]
      /\ Headings(fs[output_path].doc) = ExpectedHeadings

C5_Witness ==
    /\ pc = "done"
    /\ loaded.members[1].key = "datasets"
    /\ ~ HasKey(loaded, "benchmarks")
    /\ Headings(fs[output_path].doc) = <<"Papers", "Datasets">>

HasToken(toks, t) == \E i \in 1..Len(toks) : toks[i] = t

\* C6: a missing field never makes rendering fail, and the block shows its
\* default: "Untitled", "#", "Preprint", no Keywords line, no badge; a
\* missing date sorts as the minimum date.
C6_MissingFieldDefaults ==
    /\ ret.fn = "_format_entry" =>
         /\ ~ ret.ok => ("keywords" \in DOMAIN arg /\ arg["keywords"].t # "arr")
         /\ ret.ok =>
              /\ "title" \notin DOMAIN arg => ret.val[2] = "Untitled"
              /\ "venue" \notin DOMAIN arg => ret.val[5] = "Preprint"
              /\ "url" \notin DOMAIN arg => ret.val[8] = "#"
              /\ "keywords" \notin DOMAIN arg
                    => ~ HasToken(ret.val, " <br> _Keywords: ")
              /\ "arxiv" \notin DOMAIN arg => ~ HasToken(ret.val, ArxivBadge)
              /\ "github" \notin DOMAIN arg => ~ HasToken(ret.val, GithubBadge)
              /\ ret.val[1] = "**" /\ ret.val[Len(ret.val)] = " <br> <br> "
    /\ ret.fn = "key" => ("date" \notin DOMAIN arg => ret.val = DateMin)

\* the entry with no field at all, rendered
C6_Witness ==
    /\ ret.fn = "_format_entry"
    /\ DOMAIN arg = {}
    /\ ret.ok
    /\ Len(ret.val) = 10

Shows(field) == field \in DOMAIN arg /\ arg[field] # ""

\* C7: _generate_badges gives one badge for each of arxiv and github that is
\* there and not empty, the arXiv badge first, one space between the two.
C7_Badges ==
    ret.fn = "_generate_badges" =>
      ret.val =
        (IF Shows("arxiv") THEN <<ArxivBadge, arg["arxiv"], ")">> ELSE <<>>)
        \o (IF Shows("arxiv") /\ Shows("github") THEN <<" ">> ELSE <<>>)
        \o (IF Shows("github") THEN <<GithubBadge, arg["github"], ")">> ELSE <<>>)

C7_Witness ==
    /\ ret.fn = "_generate_badges"
    /\ Shows("arxiv") /\ Shows("github")
    /\ Len(ret.val) = 7
    /\ ret.val[4] = " "

\* C8 as stated: no operation changes self.data after the load, neither the
\* content nor the order of a list.
C8_ReadOnlyAfterLoad ==
    pc \in {"loaded", "done", "error"} => data = loaded

\* C8 as amended: after the load self.data keeps its keys in their order,
\* every list keeps its entries (each as often as before), and the lists
\* under keys no section reads are untouched; only the order of the entries
\* of a category list changes.
C8_OnlyReordered ==
    pc \in {"loaded", "done", "error"} =>
      /\ data.t = loaded.t
      /\ Len(data.members) = Len(loaded.members)
      /\ \A i \in 1..Len(data.members) :
            /\ data.members[i].key = loaded.members[i].key
            /\ IsPerm(loaded.members[i].val, data.members[i].val)
            /\ (\A c \in SectionIds : SectionOrder[c][2] # data.members[i].key)
                  => data.members[i].val = loaded.members[i].val

\* generate() returned and a list is in another order than it was loaded in
C8_Witness ==
    /\ pc = "done"
    /\ data # loaded
    /\ Len(LoadedList(1)) = 3
    /\ RenderedList(1) # LoadedList(1)

\* C9: after generate() the input file is as it was before the run; the one
\* file written is the one at output_path, which holds the document only.
C9_SourceUntouched ==
    pc = "done" =>
      /\ fs[JsonPath] = fs0[JsonPath]
      /\ \A p \in Paths \ {output_path} : fs[p] = fs0[p]
      /\ fs[output_path] = TextFile(written[Len(written)])

\* C10: every call of generate() on one instance writes the document the
\* first call wrote.
C10_Idempotent ==
    \A i \in 1..Len(written) : written[i] = written[1]

\* a second call, on lists the first call had to put in order
C10_Witness ==
    /\ pc = "done"
    /\ Len(written) >= 2
    /\ data # loaded
    /\ \E i, j \in 1..Len(LoadedList(1)) :
          /\ i < j
          /\ LoadedList(1)[i] # LoadedList(1)[j]
          /\ SortKey(LoadedList(1)[i]) = SortKey(LoadedList(1)[j])

====
